---- MODULE Spec2Model ----
(***************************************************************************)
(* Model of src/src/dbus.rs: the D-Bus connection handle, the native error *)
(* object, the status enumerations, the timeout value and the interface    *)
(* descriptor.  The native library (libdbus) is the environment: every     *)
(* value it returns or writes through an out-parameter is a nondeterminis- *)
(* tic input of the action that makes the call.                            *)
(***************************************************************************)
EXTENDS Integers, Sequences, FiniteSets, TLC

VARIABLES
    conns,      \* every DBusConnection handle created so far: [ptr, orig, live, log]
    held,       \* DBusError objects returned as Err and still owned by the caller
    last,       \* record of the last call of the binding and of its outcome
    panicked,   \* TRUE once a fail!/assert! fired: the task unwinds
    nSteps,     \* number of calls of open and of methods made so far
    iface,      \* the DBusInterface under construction: [name, members]
    added,      \* the arguments given to new and to add_method/add_signal, in call order
    calc        \* record of the last call of a pure function

vars == <<conns, held, last, panicked, nSteps, iface, added, calc>>

connVars == <<conns, held, last, panicked, nSteps>>

-----------------------------------------------------------------------------
(* Bounds *)

MaxSteps == 3
MaxHeld == 1
OrdRadius == 3
SampleRadius == 48
MaxMembers == 3

-----------------------------------------------------------------------------
(* Values *)

NULL == 0
STR == 1
I32Min == -2147483647 - 1
I32Max == 2147483647

\* Non-null connection pointers the native library can hand out.
Ptrs == 1 .. MaxSteps

I32Samples(r) == (-r .. r) \cup {I32Min, I32Max - 1, I32Max}

\* Reply codes dbus_bus_request_name can return (c_int).
ReplySamples == {-1, 0, 4}

\* What a native call can leave in the error object it was handed: untouched
\* after dbus_error_init (not set, both strings null), or set, with the two
\* strings populated or, against the library's contract, left null.
ErrOutcomes ==
    {[set |-> FALSE, name |-> NULL, message |-> NULL]} \cup
    {[set |-> TRUE, name |-> n, message |-> m] : n \in {NULL, STR}, m \in {NULL, STR}}

-----------------------------------------------------------------------------
(* DBusError *)

\* Where an error object lives: new_unsafe's local `out`, the operation's local
\* `error`, the Err(..) handed to the caller.  Where a moved value lands is not
\* specified and the build decides it for each call site: `error` is at the
\* address of `out` or at another one, and the returned error is at the address
\* of `out`, at that of `error`, or at a third one.
AddrOut == 1
AddrLocals == {AddrOut, AddrOut + 1}
AddrRets(local) == {AddrOut, local, AddrOut + 2}
Layouts == UNION {{[local |-> l, ret |-> r] : r \in AddrRets(l)} : l \in AddrLocals}

ErrEvent(fn, e) == [fn |-> fn, addr |-> e.addr]

\* DBusError::new_unsafe: the local `out` is zeroed and dbus_error_init is
\* called on it ...
new_unsafe_out ==
    [set |-> FALSE, name |-> NULL, message |-> NULL, addr |-> AddrOut,
     log |-> <<[fn |-> "dbus_error_init", addr |-> AddrOut]>>]

\* a move of the object: same contents, the address of the destination
MoveTo(e, a) == [e EXCEPT !.addr = a]

\* ... and `out` is returned by value into the caller's `let mut error`, which
\* the layout a puts at a.local.
new_unsafe(a) == MoveTo(new_unsafe_out, a.local)

\* a native call that receives &mut error and leaves outcome o in it
NativeWrite(e, fn, o) ==
    [e EXCEPT !.set = o.set, !.name = o.name, !.message = o.message,
              !.log = Append(@, ErrEvent(fn, e))]

check_safe(e) == e.name # NULL /\ e.message # NULL

\* DBusError::is_set: dbus_error_is_set(self) > 0
is_set(e) == e.set

IsSetCall(e) == [e EXCEPT !.log = Append(@, ErrEvent("dbus_error_is_set", e))]

\* Drop for DBusError
DropError(e) == [e EXCEPT !.log = Append(@, ErrEvent("dbus_error_free", e))]

-----------------------------------------------------------------------------
(* Status enumerations and the timeout value *)

DATA_REMAINS == 0
COMPLETE == 1
NEED_MEMORY == 2

\* mutant: the fallback arm fails, as in the commented-out line above from_ord
DBusDispatchStatus_from_ord_failing(result) ==
    CASE result = DATA_REMAINS -> [tag |-> "DataRemains"]
      [] result = COMPLETE -> [tag |-> "Complete"]
      [] result = NEED_MEMORY -> [tag |-> "NeedMemory"]
      [] OTHER -> [tag |-> "Panic"]

DBusDispatchStatus_from_ord(result) ==
    CASE result = DATA_REMAINS -> [tag |-> "DataRemains"]
      [] result = COMPLETE -> [tag |-> "Complete"]
      [] result = NEED_MEMORY -> [tag |-> "NeedMemory"]
      [] OTHER -> [tag |-> "Unknown", ord |-> result]

HANDLED == 0
NOT_YET_HANDLED == 1
HANDLER_NEED_MEMORY == 2

DBusHandlerResult_from_ord(result) ==
    CASE result = HANDLED -> [tag |-> "Handled"]
      [] result = NOT_YET_HANDLED -> [tag |-> "NotYetHandled"]
      [] result = HANDLER_NEED_MEMORY -> [tag |-> "NeedMemory"]
      [] OTHER -> [tag |-> "Unknown", ord |-> result]

DBusTimeout_default == [tag |-> "Default"]

DBusTimeout_infinite == [tag |-> "Infinite"]

\* mutant: the sentinel itself is accepted
DBusTimeout_millis_inclusive(millis) ==
    IF 0 <= millis /\ millis <= 2147483647
    THEN [tag |-> "Milliseconds", millis |-> millis]
    ELSE [tag |-> "Panic"]

DBusTimeout_millis(millis) ==
    IF 0 <= millis /\ millis < 2147483647
    THEN [tag |-> "Milliseconds", millis |-> millis]
    ELSE [tag |-> "Panic"]

-----------------------------------------------------------------------------
(* Initial state *)

NoNat == [set |-> FALSE, name |-> NULL, message |-> NULL, ret |-> 0, ptr |-> NULL]

NoCall ==
    [op |-> "none", h |-> 0, called |-> FALSE, nat |-> NoNat,
     result |-> "None", val |-> 0, err |-> <<>>]

Init ==
    /\ conns = <<>>
    /\ held = <<>>
    /\ last = NoCall
    /\ panicked = FALSE
    /\ nSteps = 0
    /\ iface = [name |-> "org.freedesktop.DBus.Peer", members |-> <<>>]
    /\ added = [name |-> "org.freedesktop.DBus.Peer", calls |-> <<>>]
    /\ calc = [fn |-> "none", arg |-> 0, res |-> [tag |-> "None"]]

-----------------------------------------------------------------------------
(* DBusConnection *)

ConnEvent(fn, c) == [fn |-> fn, ptr |-> c.ptr]

\* a native call that receives self.ptr
NativeCall(c, fn) == [c EXCEPT !.log = Append(@, ConnEvent(fn, c))]

\* DBusConnection { ptr: conn }
NewConnection(conn) == [ptr |-> conn, live |-> TRUE, log |-> <<>>]

\* the handle as the model tracks it: orig remembers the pointer the native
\* open returned for it
Tracked(c, returned) ==
    [ptr |-> c.ptr, orig |-> returned, live |-> c.live, log |-> c.log]

\* mutant: the reference is released before the connection is closed
DropConnection_unref_first(c) ==
    [NativeCall(NativeCall(c, "dbus_connection_unref"), "dbus_connection_close")
        EXCEPT !.live = FALSE]

\* Drop for DBusConnection
DropConnection(c) ==
    [NativeCall(NativeCall(c, "dbus_connection_close"), "dbus_connection_unref")
        EXCEPT !.live = FALSE]

Outcome(result, val, newconn, err, heldErr) ==
    [result |-> result, val |-> val, newconn |-> newconn, err |-> err,
     heldErr |-> heldErr]

\* the three ways a fallible operation ends, with the fate of its error object:
\* returned to the caller inside Err, or dropped when the function's scope ends
\* or unwinds
ReturnErr(e, a) ==
    LET moved == MoveTo(e, a.ret) IN Outcome("Err", 0, <<>>, moved, <<moved>>)

ReturnOk(e, val, newconn) == Outcome("Ok", val, newconn, DropError(e), <<>>)

Unwind(e) == Outcome("Panic", 0, <<>>, DropError(e), <<>>)

\* mutant: a set error is returned without the check_safe assertion
open_unchecked(o, conn, a) ==
    LET error == IsSetCall(NativeWrite(new_unsafe(a), "dbus_connection_open_private", o))
    IN  IF is_set(error)
        THEN ReturnErr(error, a)
        ELSE ReturnOk(error, 0, <<NewConnection(conn)>>)

\* DBusConnection::open, given what dbus_connection_open_private left in the
\* error object (o) and returned (conn)
open(o, conn, a) ==
    LET error == IsSetCall(NativeWrite(new_unsafe(a), "dbus_connection_open_private", o))
    IN  IF is_set(error)
        THEN IF check_safe(error) THEN ReturnErr(error, a) ELSE Unwind(error)
        ELSE ReturnOk(error, 0, <<NewConnection(conn)>>)

\* DBusConnection::bus_register
bus_register(o, a) ==
    LET error == IsSetCall(NativeWrite(new_unsafe(a), "dbus_bus_register", o))
    IN  IF is_set(error)
        THEN IF check_safe(error) THEN ReturnErr(error, a) ELSE Unwind(error)
        ELSE ReturnOk(error, 0, <<>>)

\* mutant: a zero reply code passes the assertion
bus_request_name_nonneg(o, response, a) ==
    LET error == IsSetCall(NativeWrite(new_unsafe(a), "dbus_bus_request_name", o))
    IN  IF is_set(error)
        THEN IF check_safe(error) THEN Unwind(error) ELSE ReturnErr(error, a)
        ELSE IF response >= 0 THEN ReturnOk(error, response, <<>>) ELSE Unwind(error)

\* DBusConnection::bus_request_name, for a name without interior NUL
bus_request_name(o, response, a) ==
    LET error == IsSetCall(NativeWrite(new_unsafe(a), "dbus_bus_request_name", o))
    IN  IF is_set(error)
        THEN IF check_safe(error) THEN Unwind(error) ELSE ReturnErr(error, a)
        ELSE IF response > 0 THEN ReturnOk(error, response, <<>>) ELSE Unwind(error)

\* DBusConnection::bus_request_name, for a name with an interior NUL:
\* name.to_c_str() fails after the error object was initialised
bus_request_name_bad_name(a) == Unwind(new_unsafe(a))

\* DBusConnection::dispatch
dispatch(status) == DBusDispatchStatus_from_ord(status)

Nat4(o, ret, p) ==
    [set |-> o.set, name |-> o.name, message |-> o.message, ret |-> ret, ptr |-> p]

Live(h) == h \in DOMAIN conns /\ conns[h].live

LivePtrs == {conns[h].ptr : h \in {k \in DOMAIN conns : conns[k].live}}

\* dbus_connection_open_private allocates the connection it returns: its
\* address is that of no connection still allocated (the lowest such address)
FreshPtr == CHOOSE p \in Ptrs \ LivePtrs : \A q \in Ptrs \ LivePtrs : p <= q

\* DBusConnection::open(address)
Open ==
    /\ ~panicked
    /\ nSteps < MaxSteps
    /\ Len(held) < MaxHeld
    /\ \E o \in ErrOutcomes, a \in Layouts :
       \E p \in IF o.set THEN {NULL} ELSE {NULL, FreshPtr} :
         LET out == open(o, p, a) IN
         /\ conns' = conns \o [i \in DOMAIN out.newconn |-> Tracked(out.newconn[i], p)]
         /\ held' = held \o out.heldErr
         /\ panicked' = (out.result = "Panic")
         /\ last' = [op |-> "open",
                     h |-> IF out.newconn = <<>> THEN 0 ELSE Len(conns) + 1,
                     called |-> TRUE, nat |-> Nat4(o, 0, p),
                     result |-> out.result, val |-> out.val, err |-> <<out.err>>]
    /\ nSteps' = nSteps + 1
    /\ UNCHANGED <<iface, added, calc>>

\* conn.get_server_id()
GetServerId(h) ==
    /\ ~panicked /\ Live(h) /\ nSteps < MaxSteps
    /\ conns' = [conns EXCEPT ![h] = NativeCall(@, "dbus_connection_get_server_id")]
    /\ last' = [NoCall EXCEPT !.op = "get_server_id", !.h = h, !.called = TRUE,
                              !.nat.ptr = conns[h].ptr, !.result = "Ok"]
    /\ nSteps' = nSteps + 1
    /\ UNCHANGED <<held, panicked, iface, added, calc>>

\* the part common to the fallible methods: the native call on self.ptr, the
\* outcome handed to the caller
Finish(h, op, fn, called, nat, out) ==
    /\ conns' = IF called THEN [conns EXCEPT ![h] = NativeCall(@, fn)] ELSE conns
    /\ held' = held \o out.heldErr
    /\ panicked' = (out.result = "Panic")
    /\ last' = [op |-> op, h |-> h, called |-> called, nat |-> nat,
                result |-> out.result, val |-> out.val, err |-> <<out.err>>]
    /\ nSteps' = nSteps + 1
    /\ UNCHANGED <<iface, added, calc>>

\* conn.bus_register()
BusRegister(h) ==
    /\ ~panicked /\ Live(h) /\ nSteps < MaxSteps /\ Len(held) < MaxHeld
    /\ \E o \in ErrOutcomes, a \in Layouts :
         Finish(h, "bus_register", "dbus_bus_register", TRUE,
                Nat4(o, 0, conns[h].ptr), bus_register(o, a))

\* conn.bus_request_name(name, flags)
BusRequestName(h) ==
    /\ ~panicked /\ Live(h) /\ nSteps < MaxSteps /\ Len(held) < MaxHeld
    /\ \/ \E o \in ErrOutcomes, response \in ReplySamples, a \in Layouts :
            Finish(h, "bus_request_name", "dbus_bus_request_name", TRUE,
                   Nat4(o, response, conns[h].ptr), bus_request_name(o, response, a))
       \/ \E a \in Layouts :
            Finish(h, "bus_request_name", "dbus_bus_request_name", FALSE,
                   [NoNat EXCEPT !.ptr = conns[h].ptr], bus_request_name_bad_name(a))

\* conn.dispatch()
Dispatch(h) ==
    /\ ~panicked /\ Live(h) /\ nSteps < MaxSteps
    /\ \E status \in I32Samples(OrdRadius) :
         /\ conns' = [conns EXCEPT ![h] = NativeCall(@, "dbus_connection_dispatch")]
         /\ last' = [NoCall EXCEPT !.op = "dispatch", !.h = h, !.called = TRUE,
                                   !.nat.ret = status, !.nat.ptr = conns[h].ptr,
                                   !.result = "Ok", !.val = dispatch(status)]
    /\ nSteps' = nSteps + 1
    /\ UNCHANGED <<held, panicked, iface, added, calc>>

\* DBusHandlerResult::from_ord(result), called directly
HandlerFromOrd ==
    /\ ~panicked
    /\ \E result \in I32Samples(OrdRadius) :
         last' = [NoCall EXCEPT !.op = "DBusHandlerResult::from_ord",
                                !.nat.ret = result, !.result = "Ok",
                                !.val = DBusHandlerResult_from_ord(result)]
    /\ UNCHANGED <<conns, held, panicked, nSteps, iface, added, calc>>

\* the handle goes out of scope, in normal flow or while the task unwinds
Drop(h) ==
    /\ Live(h)
    /\ conns' = [conns EXCEPT ![h] = DropConnection(@)]
    /\ UNCHANGED <<held, last, panicked, nSteps, iface, added, calc>>

RemoveAt(s, i) == SubSeq(s, 1, i - 1) \o SubSeq(s, i + 1, Len(s))

\* an error the caller got inside Err goes out of scope
DropHeld(i) ==
    /\ i \in DOMAIN held
    /\ held' = RemoveAt(held, i)
    /\ last' = [NoCall EXCEPT !.op = "drop_error", !.err = <<DropError(held[i])>>]
    /\ UNCHANGED <<conns, panicked, nSteps, iface, added, calc>>

Next ==
    \/ Open
    \/ \E h \in 1 .. MaxSteps : GetServerId(h)
    \/ \E h \in 1 .. MaxSteps : BusRegister(h)
    \/ \E h \in 1 .. MaxSteps : BusRequestName(h)
    \/ \E h \in 1 .. MaxSteps : Dispatch(h)
    \/ \E h \in 1 .. MaxSteps : Drop(h)
    \/ \E i \in 1 .. MaxHeld : DropHeld(i)

Spec == Init /\ [][Next]_vars

\* the status mappings: dispatch on a handle, and the handler-result mapping
\* called directly
NextStatus ==
    \/ Open
    \/ \E h \in 1 .. MaxSteps : Dispatch(h)
    \/ HandlerFromOrd
    \/ \E h \in 1 .. MaxSteps : Drop(h)

SpecStatus == Init /\ [][NextStatus]_vars

-----------------------------------------------------------------------------
(* DBusTimeout *)

TimeoutMillis ==
    /\ \E millis \in I32Samples(SampleRadius) :
         calc' = [fn |-> "millis", arg |-> millis, res |-> DBusTimeout_millis(millis)]
    /\ UNCHANGED <<connVars, iface, added>>

TimeoutDefault ==
    /\ calc' = [fn |-> "default", arg |-> 0, res |-> DBusTimeout_default]
    /\ UNCHANGED <<connVars, iface, added>>

TimeoutInfinite ==
    /\ calc' = [fn |-> "infinite", arg |-> 0, res |-> DBusTimeout_infinite]
    /\ UNCHANGED <<connVars, iface, added>>

NextTimeout == TimeoutMillis \/ TimeoutDefault \/ TimeoutInfinite

SpecTimeout == Init /\ [][NextTimeout]_vars

-----------------------------------------------------------------------------
(* DBusInterface *)

IfaceNames == {"org.freedesktop.DBus.Peer", "org.yasashiisyndicate.Frobulator"}
MemberNames == {"Ping", "Frobulate"}
Signatures == {"", "s"}
ArgNames == {<<>>, <<"value">>}

Method(name, argspec, argnames, retspec) ==
    [variant |-> "Method", f0 |-> name, f1 |-> argspec, f2 |-> argnames, f3 |-> retspec]

Signal(name, retspec) == [variant |-> "Signal", f0 |-> name, f1 |-> retspec]

DBusInterface_new(name) == [name |-> name, members |-> <<>>]

\* mutant: the element is put in front
add_member_front(self, elem) == [self EXCEPT !.members = <<elem>> \o @]

add_member(self, elem) == [self EXCEPT !.members = Append(@, elem)]

add_method(self, name, argspec, argnames, retspec) ==
    add_member(self, Method(name, argspec, argnames, retspec))

add_signal(self, name, retspec) == add_member(self, Signal(name, retspec))

\* let mut x = DBusInterface::new(name)
NewInterface ==
    /\ \E name \in IfaceNames :
         /\ iface' = DBusInterface_new(name)
         /\ added' = [name |-> name, calls |-> <<>>]
    /\ UNCHANGED <<connVars, calc>>

\* x.add_method(name, argspec, argnames, retspec)
AddMethod ==
    /\ Len(added.calls) < MaxMembers
    /\ \E name \in MemberNames, argnames \in ArgNames, retspec \in Signatures :
         LET argspec == IF argnames = <<>> THEN "" ELSE "s" IN
         /\ iface' = add_method(iface, name, argspec, argnames, retspec)
         /\ added' = [added EXCEPT !.calls = Append(@,
                        [call |-> "add_method", name |-> name, argspec |-> argspec,
                         argnames |-> argnames, retspec |-> retspec])]
    /\ UNCHANGED <<connVars, calc>>

\* x.add_signal(name, retspec)
AddSignal ==
    /\ Len(added.calls) < MaxMembers
    /\ \E name \in MemberNames, retspec \in Signatures :
         /\ iface' = add_signal(iface, name, retspec)
         /\ added' = [added EXCEPT !.calls = Append(@,
                        [call |-> "add_signal", name |-> name, argspec |-> "",
                         argnames |-> <<>>, retspec |-> retspec])]
    /\ UNCHANGED <<connVars, calc>>

NextInterface == NewInterface \/ AddMethod \/ AddSignal

SpecInterface == Init /\ [][NextInterface]_vars

-----------------------------------------------------------------------------
(* Properties *)

\* positions of the calls of fn in a log
Calls(log, fn) == {i \in DOMAIN log : log[i].fn = fn}

Fallible == {"open", "bus_register", "bus_request_name"}

\* C1: a destroyed handle has had dbus_connection_close and then
\* dbus_connection_unref issued on its pointer, once each, as the last two
\* native calls made on it, whatever calls came before and however they ended;
\* a live handle has had neither.
C1_CloseThenUnrefOnce ==
    \A h \in DOMAIN conns :
      LET c == conns[h]
          n == Len(c.log)
          closes == Calls(c.log, "dbus_connection_close")
          unrefs == Calls(c.log, "dbus_connection_unref")
      IN  IF c.live
          THEN closes = {} /\ unrefs = {}
          ELSE /\ n >= 2
               /\ closes = {n - 1}
               /\ unrefs = {n}
               /\ c.log[n - 1].ptr = c.ptr
               /\ c.log[n].ptr = c.ptr

\* a handle destroyed while the task unwinds from a panic of a method called
\* on it
C1_Witness ==
    /\ panicked
    /\ last.op \in {"bus_register", "bus_request_name"}
    /\ last.h \in DOMAIN conns
    /\ ~conns[last.h].live
    /\ Len(conns[last.h].log) >= 3

\* C2: when dbus_bus_request_name sets the error with name and message
\* populated, bus_request_name returns Err carrying that error object.
C2_SetErrorIsReturned ==
    (/\ last.op = "bus_request_name"
     /\ last.called
     /\ last.nat.set
     /\ last.nat.name # NULL
     /\ last.nat.message # NULL)
    => /\ last.result = "Err"
       /\ last.err[1].set
       /\ last.err[1].name = last.nat.name
       /\ last.err[1].message = last.nat.message

\* C3 as claimed: open returns Err exactly when the native call set the error,
\* then creating no handle; otherwise it returns Ok with one new handle that
\* holds the pointer the native call returned.
C3_ErrIffSet ==
    last.op = "open" =>
      /\ (last.result = "Err") <=> last.nat.set
      /\ last.nat.set => last.h = 0
      /\ ~last.nat.set => /\ last.result = "Ok"
                          /\ last.h = Len(conns)
                          /\ conns[last.h].ptr = last.nat.ptr

C3_State ==
    /\ last.op = "open" =>
         /\ (last.result = "Err") <=> (last.nat.set /\ last.nat.name # NULL
                                        /\ last.nat.message # NULL)
         /\ (last.result = "Panic") <=> (last.nat.set /\ (last.nat.name = NULL
                                          \/ last.nat.message = NULL))
         /\ last.nat.set => last.h = 0
         /\ ~last.nat.set => /\ last.result = "Ok"
                             /\ last.h = Len(conns)
                             /\ conns[last.h].ptr = last.nat.ptr
    /\ \A h \in DOMAIN conns : conns[h].ptr = conns[h].orig
    /\ \A h1, h2 \in DOMAIN conns :
         (h1 # h2 /\ conns[h1].live /\ conns[h2].live /\ conns[h1].ptr # NULL)
         => conns[h1].ptr # conns[h2].ptr

C3_Step ==
    /\ Len(conns') =
         Len(conns) + (IF nSteps' # nSteps /\ last'.op = "open" /\ last'.result = "Ok" THEN 1 ELSE 0)
    /\ \A h \in DOMAIN conns : conns'[h].ptr = conns[h].ptr

\* C3 (amended): open returns Err exactly when the native call set the error
\* with name and message both non-null, and panics when the error is set with
\* a null name or message; in both cases no handle is created.  Otherwise it
\* returns Ok with exactly one new handle, which holds the pointer the native
\* call returned; no other step creates a handle, and a non-null pointer is
\* held by at most one live handle.
C3_OpenOutcome == []C3_State /\ [][C3_Step]_vars

\* two handles live at once, each from its own successful open
C3_Witness ==
    /\ last.op = "open"
    /\ last.result = "Ok"
    /\ last.h = 2
    /\ conns[1].live
    /\ conns[1].ptr # NULL
    /\ conns[2].ptr # NULL

\* C4: an error returned as Err by open, bus_register or bus_request_name is
\* set and has name and message non-null; when one of them returns Ok the
\* error object the native call had was not set and had both null.
C4_CoNullity ==
    last.op \in Fallible =>
      /\ last.result = "Err" =>
           /\ last.err[1].set
           /\ last.err[1].name # NULL
           /\ last.err[1].message # NULL
      /\ last.result = "Ok" =>
           /\ ~last.nat.set
           /\ last.nat.name = NULL
           /\ last.nat.message = NULL

\* C5: an Ok(r) of bus_request_name has r > 0 and r the integer the native
\* call returned; an unset error with a return value <= 0 ends in a panic.
C5_ReplyCode ==
    (last.op = "bus_request_name" /\ last.called) =>
      /\ last.result = "Ok" => (last.val > 0 /\ last.val = last.nat.ret)
      /\ (~last.nat.set /\ last.nat.ret <= 0) => last.result = "Panic"
      /\ (~last.nat.set /\ last.nat.ret > 0) => last.result = "Ok"

C5_Witness ==
    /\ last.op = "bus_request_name"
    /\ last.result = "Ok"
    /\ last.val = 4

\* the mapping the two enumerations are documented to have
StatusOf(n, zero, one) ==
    IF n = 0 THEN [tag |-> zero]
    ELSE IF n = 1 THEN [tag |-> one]
    ELSE IF n = 2 THEN [tag |-> "NeedMemory"]
    ELSE [tag |-> "Unknown", ord |-> n]

\* C6: from_ord of the dispatch status maps 0, 1, 2 to DataRemains, Complete,
\* NeedMemory and any other n to Unknown(n); from_ord of the handler result
\* maps 0, 1, 2 to Handled, NotYetHandled, NeedMemory and any other n to
\* Unknown(n); neither fails, and dispatch returns the mapping of the integer
\* the native dispatch returned.
C6_StatusMapping ==
    /\ last.op = "dispatch" =>
         /\ last.result = "Ok"
         /\ last.val = StatusOf(last.nat.ret, "DataRemains", "Complete")
    /\ last.op = "DBusHandlerResult::from_ord" =>
         /\ last.result = "Ok"
         /\ last.val = StatusOf(last.nat.ret, "Handled", "NotYetHandled")

C6_Witness ==
    /\ last.op = "dispatch"
    /\ last.nat.ret = I32Min
    /\ last.val.tag = "Unknown"

\* C7: millis(m) is Milliseconds(m) for 0 <= m < 0x7FFFFFFF and a panic for
\* every other 32-bit m.
C7_TimeoutRange ==
    calc.fn = "millis" =>
      IF 0 <= calc.arg /\ calc.arg <= I32Max - 1
      THEN calc.res.tag = "Milliseconds" /\ calc.res.millis = calc.arg
      ELSE calc.res.tag = "Panic"

C7_Witness ==
    /\ calc.fn = "millis"
    /\ calc.arg = I32Max
    /\ calc.res.tag = "Panic"

\* C8: the member list is the sequence of the elements added, in call order,
\* with the fields as given; the interface name is the one given to new;
\* duplicates are kept.
C8_MembersAreCallsInOrder ==
    /\ iface.name = added.name
    /\ Len(iface.members) = Len(added.calls)
    /\ \A i \in DOMAIN added.calls :
         LET a == added.calls[i]
             m == iface.members[i]
         IN  IF a.call = "add_method"
             THEN /\ m.variant = "Method"
                  /\ m.f0 = a.name
                  /\ m.f1 = a.argspec
                  /\ m.f2 = a.argnames
                  /\ m.f3 = a.retspec
             ELSE /\ m.variant = "Signal"
                  /\ m.f0 = a.name
                  /\ m.f1 = a.retspec

\* a signal, then the same method added twice
C8_Witness ==
    /\ Len(iface.members) = 3
    /\ iface.members[1].variant = "Signal"
    /\ iface.members[2] = Method("Frobulate", "s", <<"value">>, "s")
    /\ iface.members[3] = iface.members[2]

ErrorLifecycle(e, freed) ==
    LET n == Len(e.log)
        inits == Calls(e.log, "dbus_error_init")
        frees == Calls(e.log, "dbus_error_free")
    IN  /\ inits = {1}
        /\ frees = IF freed THEN {n} ELSE {}
        /\ \A i \in DOMAIN e.log : e.log[i].addr = e.log[1].addr

\* C9: each call of open, bus_register or bus_request_name initialises one
\* error object; an error object is freed exactly once, after every other
\* native call on it, on every exit path (not yet while the caller holds it),
\* and every native call on it, the free included, is given the address it
\* was initialised at.
C9_ErrorLifecycle ==
    /\ last.op \in Fallible => Len(last.err) = 1
    /\ \A i \in DOMAIN last.err :
         ErrorLifecycle(last.err[i], last.result # "Err")
    /\ \A i \in DOMAIN held : ErrorLifecycle(held[i], FALSE)

\* C10: a live handle holds a non-null pointer, the one the native open
\* returned, and every native call made on the handle was given that pointer.
C10_NonNullPointer ==
    \A h \in DOMAIN conns :
      LET c == conns[h] IN
      /\ c.live => c.ptr # NULL
      /\ c.ptr = c.orig
      /\ \A i \in DOMAIN c.log : c.log[i].ptr = c.orig

====
